---------------------------- MODULE Spec2Model ----------------------------
(***************************************************************************)
(* A model of cosmos-api: the body registry, the timestamp parser, the     *)
(* two calculators of src/astronomy.py and the HTTP routes of src/main.py. *)
(*                                                                         *)
(* Text is modelled character by character: a Python str is a sequence of  *)
(* one-character strings, so that lower-casing, suffix replacement,        *)
(* parsing and formatting are conversions that can go wrong.               *)
(***************************************************************************)
EXTENDS Integers, Sequences, FiniteSets, TLC

VARIABLES
    req,               \* the request (or the argument tuple) being handled
    resp,              \* the response (or the result) produced for req
    ephQueries,        \* ephemeris state-vector queries made while handling req
    coreCalls,         \* core functions of astronomy.py entered while handling req
    providerRaised,    \* the exception class the ephemeris provider raised while
                       \* handling req, "none" when it raised nothing
    now,               \* the wall clock read by ts.now(), seconds since the epoch day
    planets,           \* the loaded ephemeris dataset (module global of astronomy.py)
    BODY_MAP,          \* module global of astronomy.py
    AVAILABLE_BODIES   \* module global of astronomy.py

vars == <<req, resp, ephQueries, coreCalls, providerRaised, now,
         planets, BODY_MAP, AVAILABLE_BODIES>>

globals == <<planets, BODY_MAP, AVAILABLE_BODIES>>

-----------------------------------------------------------------------------
(* Python values *)

\* Python's None, where the other values of the slot are strings.
None == "<None>"

\* A query parameter the request does not carry.
Missing == << "<missing>" >>

\* Python's None in a slot whose other values are texts.
NoneText == << "<None>" >>

\* A float parameter the request does not carry (the other values are integers).
MissingNum == -99999999

\* The empty response slot: no response has been produced yet.
NoResp == [status |-> 0]

LowerLetters == <<"a","b","c","d","e","f","g","h","i","j","k","l","m",
                  "n","o","p","q","r","s","t","u","v","w","x","y","z">>

UpperLetters == <<"A","B","C","D","E","F","G","H","I","J","K","L","M",
                  "N","O","P","Q","R","S","T","U","V","W","X","Y","Z">>

\* str.lower() on one character.
LowerChar(c) ==
    IF \E i \in 1..26 : UpperLetters[i] = c
    THEN LowerLetters[CHOOSE i \in 1..26 : UpperLetters[i] = c]
    ELSE c

\* str.upper() on one character.
UpperChar(c) ==
    IF \E i \in 1..26 : LowerLetters[i] = c
    THEN UpperLetters[CHOOSE i \in 1..26 : LowerLetters[i] = c]
    ELSE c

\* str.lower()
lower(s) == [i \in 1..Len(s) |-> LowerChar(s[i])]

\* sep.join(items) for a sequence of texts
RECURSIVE join(_, _)
join(sep, items) ==
    IF Len(items) = 0 THEN <<>>
    ELSE IF Len(items) = 1 THEN items[1]
    ELSE items[1] \o sep \o join(sep, Tail(items))

\* needle in hay (substring test)
Contains(hay, needle) ==
    \E i \in 0..(Len(hay) - Len(needle)) :
        \A j \in 1..Len(needle) : hay[i + j] = needle[j]

\* LET v == value IN Body(v), with value worked out once, before the body.
Let(value, Body(_)) == CHOOSE r \in { Body(v) : v \in {value} } : TRUE

\* One piece of an f-string: a literal of the source, or an interpolated text.
Lit(s)    == [lit |-> s, chars |-> <<>>]
Interp(s) == [lit |-> "", chars |-> s]

\* raise ValueError(msg) and friends: an exception of class type carrying msg.
Raise(type, msg) == [ok |-> FALSE, exc |-> [type |-> type, msg |-> msg]]

-----------------------------------------------------------------------------
(* Body mapping: src/astronomy.py lines 22-57 *)

\* The dict literal BODY_MAP, in insertion order: key (a text) and ephemeris
\* identifier.
BODY_MAP_LITERAL == <<
    [key |-> <<"s","u","n">>,                 value |-> "sun"],
    [key |-> <<"e","a","r","t","h">>,         value |-> "earth"],
    [key |-> <<"m","o","o","n">>,             value |-> "moon"],
    [key |-> <<"m","e","r","c","u","r","y">>, value |-> "mercury"],
    [key |-> <<"v","e","n","u","s">>,         value |-> "venus"],
    [key |-> <<"m","a","r","s">>,             value |-> "mars"],
    [key |-> <<"j","u","p","i","t","e","r">>, value |-> "jupiter barycenter"],
    [key |-> <<"s","a","t","u","r","n">>,     value |-> "saturn barycenter"],
    [key |-> <<"u","r","a","n","u","s">>,     value |-> "uranus barycenter"],
    [key |-> <<"n","e","p","t","u","n","e">>, value |-> "neptune barycenter"],
    [key |-> <<"p","l","u","t","o">>,         value |-> "pluto barycenter"] >>

\* list(d.keys())
keys(d) == [i \in 1..Len(d) |-> d[i].key]

\* d.get(k): the value of the entry with key k, None when there is none.
dict_get(d, k) ==
    IF \E i \in 1..Len(d) : d[i].key = k
    THEN d[CHOOSE i \in 1..Len(d) : d[i].key = k].value
    ELSE None

\* get_body with the lower-casing left out (the mutant of get_body).
get_body_case_sensitive(name) ==
    LET key == dict_get(BODY_MAP, name) IN
    IF key = None \/ key = ""
    THEN Raise("ValueError",
               << Lit("Invalid celestial body: '"), Interp(name),
                  Lit("'. Available bodies: "),
                  Interp(join(<<",", " ">>, AVAILABLE_BODIES)) >>)
    ELSE IF key \notin DOMAIN planets
    THEN Raise("KeyError", << Lit("kernel is missing "), Lit(key) >>)
    ELSE [ok |-> TRUE, body |-> key]

\* get_body(name): the ephemeris segment planets[key], named by its identifier.
get_body(name) ==
    LET key == dict_get(BODY_MAP, lower(name)) IN
    IF key = None \/ key = ""
    THEN Raise("ValueError",
               << Lit("Invalid celestial body: '"), Interp(name),
                  Lit("'. Available bodies: "),
                  Interp(join(<<",", " ">>, AVAILABLE_BODIES)) >>)
    ELSE IF key \notin DOMAIN planets
    THEN Raise("KeyError", << Lit("kernel is missing "), Lit(key) >>)
    ELSE [ok |-> TRUE, body |-> key]

-----------------------------------------------------------------------------
(* Calendar arithmetic of datetime (CPython Lib/_pydatetime.py), used by    *)
(* datetime.fromisoformat, datetime.astimezone and Time.utc_iso.            *)

Digits == <<"0","1","2","3","4","5","6","7","8","9">>

IsDigit(c) == \E i \in 1..10 : Digits[i] = c

DigitVal(c) == (CHOOSE i \in 1..10 : Digits[i] = c) - 1

AllDigits(s) == Len(s) > 0 /\ \A i \in 1..Len(s) : IsDigit(s[i])

\* int(s) for a text of decimal digits
RECURSIVE int(_)
int(s) ==
    IF Len(s) = 0 THEN 0
    ELSE int(SubSeq(s, 1, Len(s) - 1)) * 10 + DigitVal(s[Len(s)])

\* '%02d' % n and '%04d' % n
Format2(n) == << Digits[((n \div 10) % 10) + 1], Digits[(n % 10) + 1] >>
Format4(n) == Format2(n \div 100) \o Format2(n % 100)

IsLeap(y) == y % 4 = 0 /\ (y % 100 # 0 \/ y % 400 = 0)

DaysInMonthTable == <<31, 28, 31, 30, 31, 30, 31, 31, 30, 31, 30, 31>>

DaysInMonth(y, m) == IF m = 2 /\ IsLeap(y) THEN 29 ELSE DaysInMonthTable[m]

DaysBeforeYear(y) ==
    (y - 1) * 365 + ((y - 1) \div 4) - ((y - 1) \div 100) + ((y - 1) \div 400)

RECURSIVE DaysBeforeMonth(_, _)
DaysBeforeMonth(y, m) ==
    IF m = 1 THEN 0 ELSE DaysBeforeMonth(y, m - 1) + DaysInMonth(y, m - 1)

\* _ymd2ord: the proleptic Gregorian ordinal, 0001-01-01 is day 1.
ymd2ord(y, m, d) == DaysBeforeYear(y) + DaysBeforeMonth(y, m) + d

\* The month and day of the n-th day (from 0) of year, in _ord2ymd.
MonthAndDay(year, n) ==
    Let((n + 50) \div 32, LAMBDA m0 :
    Let(IF DaysBeforeMonth(year, m0) > n THEN m0 - 1 ELSE m0, LAMBDA month :
        [year |-> year, month |-> month,
         day |-> n - DaysBeforeMonth(year, month) + 1]))

\* _ord2ymd, by the 400/100/4/1-year cycles as CPython computes it.
ord2ymd(ordinal) ==
    Let(ordinal - 1, LAMBDA n0 :
    Let([n400 |-> n0 \div 146097, r |-> n0 % 146097], LAMBDA a :
    Let([n100 |-> a.r \div 36524, r |-> a.r % 36524], LAMBDA b :
    Let([n4 |-> b.r \div 1461, r |-> b.r % 1461], LAMBDA c :
    Let([n1 |-> c.r \div 365, n |-> c.r % 365], LAMBDA e :
    Let(a.n400 * 400 + 1 + b.n100 * 100 + c.n4 * 4 + e.n1, LAMBDA year :
        IF e.n1 = 4 \/ b.n100 = 4
        THEN [year |-> year - 1, month |-> 12, day |-> 31]
        ELSE MonthAndDay(year, e.n)))))))

\* The day Skyfield's time coordinate is counted from in this model
\* (2000-01-01), so that seconds fit a machine integer.
EpochOrdinal == ymd2ord(2000, 1, 1)

-----------------------------------------------------------------------------
(* datetime.fromisoformat for the texts YYYY-MM-DD[*HH[:MM[:SS]][+HH:MM]],  *)
(* the forms every supported CPython accepts alike. Fractional seconds are  *)
(* not modelled: no input below has them.                                   *)

InvalidIso(s) ==
    Raise("ValueError", << Lit("Invalid isoformat string: '"), Interp(s), Lit("'") >>)

\* HH[:MM[:SS]] as <<h, m, s>>, or <<>> when malformed (_parse_hh_mm_ss_ff).
ParseHHMMSS(s) ==
    LET two(i) == SubSeq(s, i, i + 1) IN
    IF Len(s) = 2 /\ AllDigits(s) THEN << int(s), 0, 0 >>
    ELSE IF Len(s) = 5 /\ AllDigits(two(1)) /\ s[3] = ":" /\ AllDigits(two(4))
    THEN << int(two(1)), int(two(4)), 0 >>
    ELSE IF Len(s) = 8 /\ AllDigits(two(1)) /\ s[3] = ":" /\ AllDigits(two(4))
                       /\ s[6] = ":" /\ AllDigits(two(7))
    THEN << int(two(1)), int(two(4)), int(two(7)) >>
    ELSE <<>>

\* The position of the first '-' of s, else of its first '+', else 0
\* (tstr.find('-') + 1 or tstr.find('+') + 1).
TzPos(s) ==
    LET first(c) == IF \E i \in 1..Len(s) : s[i] = c
                    THEN CHOOSE i \in 1..Len(s) :
                             s[i] = c /\ \A j \in 1..(i - 1) : s[j] # c
                    ELSE 0
    IN  IF first("-") # 0 THEN first("-") ELSE first("+")

\* The time part of the text, after the separator: the time of day, whether
\* an offset follows, and the offset (_parse_isoformat_time).
ParseTime(tstr) ==
    Let(TzPos(tstr), LAMBDA tzpos :
        [hms   |-> ParseHHMMSS(IF tzpos > 0 THEN SubSeq(tstr, 1, tzpos - 1) ELSE tstr),
         aware |-> tzpos > 0,
         tzlen |-> IF tzpos > 0 THEN Len(tstr) - tzpos ELSE 0,
         tz    |-> IF tzpos > 0 THEN ParseHHMMSS(SubSeq(tstr, tzpos + 1, Len(tstr)))
                   ELSE << 0, 0, 0 >>,
         sign  |-> IF tzpos > 0 /\ tstr[tzpos] = "-" THEN -1 ELSE 1])

\* The datetime of the parsed fields, or the ValueError of its constructor.
MakeDatetime(s, y, m, d, p) ==
    IF p.hms = <<>> THEN InvalidIso(s)
    ELSE IF p.aware /\ (p.tzlen \notin {5, 8} \/ p.tz = <<>>) THEN InvalidIso(s)
    ELSE IF p.aware /\ (p.tz[1] > 23 \/ p.tz[2] > 59 \/ p.tz[3] > 59)
    THEN Raise("ValueError", << Lit("offset must be a timedelta strictly between -timedelta(hours=24) and timedelta(hours=24)") >>)
    ELSE IF y < 1 THEN Raise("ValueError", << Lit("year 0 is out of range") >>)
    ELSE IF m \notin 1..12 THEN Raise("ValueError", << Lit("month must be in 1..12") >>)
    ELSE IF d \notin 1..DaysInMonth(y, m)
    THEN Raise("ValueError", << Lit("day is out of range for month") >>)
    ELSE IF p.hms[1] > 23 THEN Raise("ValueError", << Lit("hour must be in 0..23") >>)
    ELSE IF p.hms[2] > 59 THEN Raise("ValueError", << Lit("minute must be in 0..59") >>)
    ELSE IF p.hms[3] > 59 THEN Raise("ValueError", << Lit("second must be in 0..59") >>)
    ELSE [ok |-> TRUE,
          dt |-> [year |-> y, month |-> m, day |-> d,
                  hour |-> p.hms[1], minute |-> p.hms[2], second |-> p.hms[3],
                  aware |-> p.aware,
                  utcoffset |-> p.sign * (p.tz[1] * 3600 + p.tz[2] * 60 + p.tz[3])]]

fromisoformat(s) ==
    IF Len(s) < 10 \/ Len(s) = 11 THEN InvalidIso(s)
    ELSE IF ~(/\ AllDigits(SubSeq(s, 1, 4)) /\ s[5] = "-"
              /\ AllDigits(SubSeq(s, 6, 7)) /\ s[8] = "-"
              /\ AllDigits(SubSeq(s, 9, 10)))
    THEN InvalidIso(s)
    ELSE
    Let(IF Len(s) = 10
        THEN [hms |-> << 0, 0, 0 >>, aware |-> FALSE, tzlen |-> 0,
              tz |-> << 0, 0, 0 >>, sign |-> 1]
        ELSE ParseTime(SubSeq(s, 12, Len(s))), LAMBDA p :
    Let(<< int(SubSeq(s, 1, 4)), int(SubSeq(s, 6, 7)), int(SubSeq(s, 9, 10)) >>,
        LAMBDA ymd : MakeDatetime(s, ymd[1], ymd[2], ymd[3], p)))

\* dt.astimezone(timezone.utc).replace(tzinfo=None) for an aware dt: the same
\* instant as UTC wall-clock fields.
astimezone_utc(dt) ==
    Let(dt.hour * 3600 + dt.minute * 60 + dt.second - dt.utcoffset, LAMBDA secs :
    Let(ord2ymd(ymd2ord(dt.year, dt.month, dt.day) + (secs \div 86400)), LAMBDA ymd :
    Let(secs % 86400, LAMBDA sod :
        [year |-> ymd.year, month |-> ymd.month, day |-> ymd.day,
         hour |-> sod \div 3600, minute |-> (sod \div 60) % 60, second |-> sod % 60,
         aware |-> FALSE, utcoffset |-> 0])))

\* ts.utc(year, month, day, hour, minute, second): the TimePoint, as whole
\* seconds since the epoch day.
ts_utc(year, month, day, hour, minute, second) ==
    (ymd2ord(year, month, day) - EpochOrdinal) * 86400
        + hour * 3600 + minute * 60 + second

\* Time.utc_iso(): 'YYYY-MM-DDTHH:MM:SSZ'
utc_iso(t) ==
    Let(ord2ymd((t \div 86400) + EpochOrdinal), LAMBDA ymd :
    Let(t % 86400, LAMBDA sod :
        Format4(ymd.year) \o <<"-">> \o Format2(ymd.month) \o <<"-">>
            \o Format2(ymd.day) \o <<"T">> \o Format2(sod \div 3600) \o <<":">>
            \o Format2((sod \div 60) % 60) \o <<":">> \o Format2(sod % 60) \o <<"Z">>))

-----------------------------------------------------------------------------
(* Time parsing: src/astronomy.py lines 61-95 *)

\* The two format examples of the error message.
ExampleZ      == <<"2","0","2","5","-","0","1","-","1","5","T",
                   "1","2",":","0","0",":","0","0","Z">>
ExampleOffset == <<"2","0","2","5","-","0","1","-","1","5","T",
                   "1","2",":","0","0",":","0","0","+","0","0",":","0","0">>

\* at.endswith('Z')
EndsWithZ(at) == Len(at) > 0 /\ at[Len(at)] = "Z"

\* at[:-1] + '+00:00' when at ends in 'Z', else at: the value of the local
\* variable at after lines 79-80.
HandleZSuffix(at) ==
    IF EndsWithZ(at)
    THEN SubSeq(at, 1, Len(at) - 1) \o <<"+","0","0",":","0","0">>
    ELSE at

\* The ValueError of lines 91-95; at is the local variable as it is then.
TimestampError(at, e) ==
    Raise("ValueError",
          << Lit("Invalid timestamp format: '"), Interp(at),
             Lit("'. Expected ISO 8601 format (e.g., '"), Interp(ExampleZ),
             Lit("' or '"), Interp(ExampleOffset), Lit("'). Error: ") >> \o e.msg)

\* parse_timestamp without the conversion of an aware datetime to UTC (the
\* mutant of parse_timestamp).
parse_timestamp_no_conversion(at, clock) ==
    IF at = NoneText THEN [ok |-> TRUE, t |-> clock]
    ELSE
    Let(HandleZSuffix(at), LAMBDA at2 :
    Let(fromisoformat(at2), LAMBDA p :
        IF ~p.ok THEN TimestampError(at2, p.exc)
        ELSE [ok |-> TRUE,
              t |-> ts_utc(p.dt.year, p.dt.month, p.dt.day,
                           p.dt.hour, p.dt.minute, p.dt.second)]))

\* parse_timestamp(at); clock is what ts.now() returns.
parse_timestamp(at, clock) ==
    IF at = NoneText THEN [ok |-> TRUE, t |-> clock]
    ELSE
    Let(HandleZSuffix(at), LAMBDA at2 :
    Let(fromisoformat(at2), LAMBDA p :
        IF ~p.ok THEN TimestampError(at2, p.exc)
        ELSE Let(IF p.dt.aware THEN astimezone_utc(p.dt) ELSE p.dt, LAMBDA dt :
                 [ok |-> TRUE,
                  t |-> ts_utc(dt.year, dt.month, dt.day,
                               dt.hour, dt.minute, dt.second)])))

-----------------------------------------------------------------------------
(* The ephemeris kernel de421.bsp behind load() (src/astronomy.py line 17). *)
(* Motion is along one axis, in thousandths of a km: a segment is a centre  *)
(* p0, a speed v and a phase, and the body swings about its centre in a     *)
(* triangle wave, so that it moves at speed v at every instant.             *)

DE421 ==
    [id \in {"sun", "earth", "moon", "mercury", "venus", "mars",
             "jupiter barycenter", "saturn barycenter", "uranus barycenter",
             "neptune barycenter", "pluto barycenter"} |->
        CASE id = "sun"                -> [p0 |-> 0,    v |-> 0, phase |-> 0]
          [] id = "mercury"            -> [p0 |-> 40,   v |-> 3, phase |-> 7]
          [] id = "venus"              -> [p0 |-> 70,   v |-> 3, phase |-> 31]
          [] id = "earth"              -> [p0 |-> 100,  v |-> 2, phase |-> 0]
          [] id = "moon"               -> [p0 |-> 103,  v |-> 2, phase |-> 11]
          [] id = "mars"               -> [p0 |-> 150,  v |-> 2, phase |-> 53]
          [] id = "jupiter barycenter" -> [p0 |-> 520,  v |-> 1, phase |-> 17]
          [] id = "saturn barycenter"  -> [p0 |-> 950,  v |-> 1, phase |-> 71]
          [] id = "uranus barycenter"  -> [p0 |-> 1200, v |-> 1, phase |-> 5]
          [] id = "neptune barycenter" -> [p0 |-> 1400, v |-> 1, phase |-> 97]
          [] id = "pluto barycenter"   -> [p0 |-> 1600, v |-> 1, phase |-> 43]]

\* The state after the modules are imported: the kernel is loaded and the two
\* registry globals are built (lines 17, 22-36).
InitGlobals ==
    /\ planets = DE421
    /\ BODY_MAP = BODY_MAP_LITERAL
    /\ AVAILABLE_BODIES = keys(BODY_MAP_LITERAL)

-----------------------------------------------------------------------------
(* The ephemeris provider (Skyfield): body.at(t), observe, altaz. Modelled  *)
(* from sections 4.3 and 4.4 of the specification, in whole seconds and     *)
(* thousandths of a km.                                                     *)

Abs(x) == IF x < 0 THEN -x ELSE x

\* n / m rounded to the nearest integer, a tie to the even one: round(x, k)
\* on a value held in units of 10^-k / m.
RoundDiv(n, m) ==
    Let([q |-> n \div m, r |-> n % m], LAMBDA x :
        IF 2 * x.r < m THEN x.q
        ELSE IF 2 * x.r > m THEN x.q + 1
        ELSE IF x.q % 2 = 0 THEN x.q ELSE x.q + 1)

\* The speed of light, in thousandths of a km per second, to the model's scale.
SpeedOfLight == 10

\* One astronomical unit, in thousandths of a km, to the model's scale.
AstronomicalUnit == 100

\* The cap on light-time iterations (section 4.3, step 3).
IterationCap == 10

\* The convergence tolerance of section 4.3, step 3, in seconds: the estimate
\* has converged when it changes by less than this. Light times are whole
\* seconds here, so two successive estimates one second apart are as close as
\* the rounding lets them settle.
LightTimeTolerance == 2

\* body.at(t).position: where the segment puts the body at time t.
position_of(body, t) ==
    Let(planets[body], LAMBDA seg :
    Let((t + seg.phase) % 120, LAMBDA x :
        seg.p0 + seg.v * (IF x < 60 THEN x ELSE 120 - x)))

\* The light-time iteration of section 4.3 from the estimate tau, at its n-th
\* convergence test: the target is taken at t - tau, the observer at t.
RECURSIVE LightTimeIterate(_, _, _, _, _)
LightTimeIterate(observerPosition, target, t, tau, n) ==
    Let(Abs(position_of(target, t - tau) - observerPosition), LAMBDA d :
    Let(RoundDiv(d, SpeedOfLight), LAMBDA tau2 :
        IF Abs(tau2 - tau) < LightTimeTolerance
        THEN [ok |-> TRUE, distance |-> d, tau |-> tau, iters |-> n]
        ELSE IF n >= IterationCap
        THEN [ok |-> FALSE, distance |-> d, tau |-> tau2, iters |-> n]
        ELSE LightTimeIterate(observerPosition, target, t, tau2, n + 1)))

\* observer.at(t).observe(target), for an observer at observerPosition.
observe(observerPosition, target, t) ==
    Let(observerPosition, LAMBDA o : LightTimeIterate(o, target, t, 0, 1))

\* wgs84.latlon(lat, lon): the observer's offset from the centre of the Earth;
\* lat in ten-thousandths of a degree.
wgs84_offset(lat, lon) == lat \div 300000

\* astrometric.apparent().altaz(): altitude and azimuth in thousandths of a
\* degree, a fixed function of the geometry, the place and the time. The
\* altitude is a multiple of five degrees in [-90, 90] plus a part of at most
\* five thousandths, so that bodies near the horizon occur.
altaz(distance, lat, lon, t) ==
    Let(distance + Abs(lat \div 10000) + Abs(lon \div 10000) + (t % 86400), LAMBDA h :
        [alt |-> ((h % 37) - 18) * 5000 + (((h \div 37) % 11) - 5),
         az  |-> (h * 1013) % 360000])

\* The exception classes a failing provider is tried with: one that is a
\* ValueError and one that is not.
ProviderExceptions == { "ValueError", "RuntimeError" }

\* What the provider does with a request: whether its dataset fails the
\* query, and the class of the exception it raises when it fails or does not
\* converge.
ProviderBehaviours == [fails : BOOLEAN, type : ProviderExceptions]

Healthy == [fails |-> FALSE, type |-> "RuntimeError"]

-----------------------------------------------------------------------------
(* Calculation functions: src/astronomy.py lines 99-187. A result carries,  *)
(* next to the returned dict or the exception, the number of state-vector   *)
(* queries made and, on success, the solver's iteration count and light     *)
(* time.                                                                    *)

\* The exception of r leaves the function after queries state-vector queries.
Propagate(r, queries, raised) ==
    [ok |-> FALSE, exc |-> r.exc, queries |-> queries, raised |-> raised]

\* The dict of lines 129-136, distances in hundredths of a km, millionths of
\* an AU and hundredths of a second.
DistanceDict(body1_name, body2_name, distance, t) ==
    [source |-> body1_name,
     target |-> body2_name,
     km |-> RoundDiv(distance, 10),
     au |-> RoundDiv(distance * 1000000, AstronomicalUnit),
     light_time_seconds |-> RoundDiv(distance * 100, SpeedOfLight),
     timestamp |-> utc_iso(t)]

\* The part of calculate_distance after its inputs are resolved (lines
\* 125-136): observer is the identifier of the body measured from.
DistanceFrom(observer, body1_name, body2_name, target, t, provider) ==
    IF provider.fails
    THEN Propagate(Raise(provider.type, << Lit("ephemeris segment cannot be read") >>),
                   1, provider.type)
    ELSE
    Let(observe(position_of(observer, t), target, t), LAMBDA geometry :
        IF ~geometry.ok
        THEN Propagate(Raise(provider.type,
                             << Lit("light-travel time failed to converge") >>),
                       1 + geometry.iters, provider.type)
        ELSE [ok |-> TRUE,
              value |-> DistanceDict(body1_name, body2_name, geometry.distance, t),
              queries |-> 1 + geometry.iters, raised |-> "none",
              iters |-> geometry.iters, tau |-> geometry.tau])

\* calculate_distance measuring from the sun instead of from body 1 (a mutant
\* of calculate_distance).
calculate_distance_from_sun(body1_name, body2_name, at, clock, provider) ==
    Let(get_body(body1_name), LAMBDA obj1 :
    IF ~obj1.ok THEN Propagate(obj1, 0, "none") ELSE
    Let(get_body(body2_name), LAMBDA obj2 :
    IF ~obj2.ok THEN Propagate(obj2, 0, "none") ELSE
    Let(parse_timestamp(at, clock), LAMBDA t :
    IF ~t.ok THEN Propagate(t, 0, "none") ELSE
    DistanceFrom("sun", body1_name, body2_name, obj2.body, t.t, provider))))

\* calculate_distance asking for body 1's state vector before it resolves
\* body 2 and the time (a mutant of calculate_distance).
calculate_distance_eager_query(body1_name, body2_name, at, clock, provider) ==
    Let(get_body(body1_name), LAMBDA obj1 :
    IF ~obj1.ok THEN Propagate(obj1, 0, "none") ELSE
    Let(get_body(body2_name), LAMBDA obj2 :
    IF ~obj2.ok THEN Propagate(obj2, 1, "none") ELSE
    Let(parse_timestamp(at, clock), LAMBDA t :
    IF ~t.ok THEN Propagate(t, 1, "none") ELSE
    DistanceFrom(obj1.body, body1_name, body2_name, obj2.body, t.t, provider))))

\* calculate_distance(body1_name, body2_name, at)
calculate_distance(body1_name, body2_name, at, clock, provider) ==
    Let(get_body(body1_name), LAMBDA obj1 :
    IF ~obj1.ok THEN Propagate(obj1, 0, "none") ELSE
    Let(get_body(body2_name), LAMBDA obj2 :
    IF ~obj2.ok THEN Propagate(obj2, 0, "none") ELSE
    Let(parse_timestamp(at, clock), LAMBDA t :
    IF ~t.ok THEN Propagate(t, 0, "none") ELSE
    DistanceFrom(obj1.body, body1_name, body2_name, obj2.body, t.t, provider))))

\* str(n) for a natural number n
RECURSIVE NatText(_)
NatText(n) ==
    IF n < 10 THEN << Digits[n + 1] >>
    ELSE NatText(n \div 10) \o << Digits[(n % 10) + 1] >>

\* The decimals of f ten-thousandths as repr(float) writes them: four digits
\* less the trailing zeros, one digit at least.
RECURSIVE StripZeros(_)
StripZeros(ds) ==
    IF Len(ds) > 1 /\ ds[Len(ds)] = "0" THEN StripZeros(SubSeq(ds, 1, Len(ds) - 1))
    ELSE ds

\* '{lat}' for a coordinate held in ten-thousandths of a degree.
FormatCoordinate(x) ==
    (IF x < 0 THEN <<"-">> ELSE <<>>)
        \o NatText(Abs(x) \div 10000) \o <<".">> \o StripZeros(Format4(Abs(x) % 10000))

\* The dict of lines 179-187, angles in hundredths of a degree; aa is the
\* altitude and azimuth in thousandths of a degree.
PositionDict(planet_name, lat, lon, aa, distance, t) ==
    [planet |-> planet_name,
     observer_location |-> [lat |-> lat, lon |-> lon],
     altitude_deg |-> RoundDiv(aa.alt, 10),
     azimuth_deg |-> RoundDiv(aa.az, 10),
     distance_km |-> RoundDiv(distance, 10),
     is_visible |-> aa.alt > 0,
     timestamp |-> utc_iso(t)]

\* The part of calculate_position_from_earth after its inputs are resolved
\* (lines 172-187).
PositionOf(planet_name, target, lat, lon, t, provider) ==
    IF provider.fails
    THEN Propagate(Raise(provider.type, << Lit("ephemeris segment cannot be read") >>),
                   1, provider.type)
    ELSE
    Let(observe(position_of("earth", t) + wgs84_offset(lat, lon), target, t),
        LAMBDA astrometric :
        IF ~astrometric.ok
        THEN Propagate(Raise(provider.type,
                             << Lit("light-travel time failed to converge") >>),
                       1 + astrometric.iters, provider.type)
        ELSE
        Let(altaz(astrometric.distance, lat, lon, t), LAMBDA aa :
            [ok |-> TRUE,
             value |-> PositionDict(planet_name, lat, lon, aa, astrometric.distance, t),
             queries |-> 1 + astrometric.iters, raised |-> "none",
             iters |-> astrometric.iters, tau |-> astrometric.tau]))

\* calculate_position_from_earth resolving the body before it checks the
\* coordinates (a mutant of calculate_position_from_earth).
calculate_position_body_first(planet_name, lat, lon, at, clock, provider) ==
    Let(get_body(planet_name), LAMBDA target :
    IF ~target.ok THEN Propagate(target, 0, "none")
    ELSE IF ~(-900000 <= lat /\ lat <= 900000)
    THEN Propagate(Raise("ValueError",
             << Lit("Latitude must be between -90 and 90 degrees, got "),
                Interp(FormatCoordinate(lat)) >>), 0, "none")
    ELSE IF ~(-1800000 <= lon /\ lon <= 1800000)
    THEN Propagate(Raise("ValueError",
             << Lit("Longitude must be between -180 and 180 degrees, got "),
                Interp(FormatCoordinate(lon)) >>), 0, "none")
    ELSE
    Let(parse_timestamp(at, clock), LAMBDA t :
    IF ~t.ok THEN Propagate(t, 0, "none") ELSE
    PositionOf(planet_name, target.body, lat, lon, t.t, provider)))

\* calculate_position_from_earth(planet_name, lat, lon, at); lat and lon in
\* ten-thousandths of a degree.
calculate_position_from_earth(planet_name, lat, lon, at, clock, provider) ==
    IF ~(-900000 <= lat /\ lat <= 900000)
    THEN Propagate(Raise("ValueError",
             << Lit("Latitude must be between -90 and 90 degrees, got "),
                Interp(FormatCoordinate(lat)) >>), 0, "none")
    ELSE IF ~(-1800000 <= lon /\ lon <= 1800000)
    THEN Propagate(Raise("ValueError",
             << Lit("Longitude must be between -180 and 180 degrees, got "),
                Interp(FormatCoordinate(lon)) >>), 0, "none")
    ELSE
    Let(get_body(planet_name), LAMBDA target :
    IF ~target.ok THEN Propagate(target, 0, "none") ELSE
    Let(parse_timestamp(at, clock), LAMBDA t :
    IF ~t.ok THEN Propagate(t, 0, "none") ELSE
    PositionOf(planet_name, target.body, lat, lon, t.t, provider)))

-----------------------------------------------------------------------------
(* Bounds of the inputs *)

\* Case patterns tried on a name: bit i of the pattern upper-cases letter i+1.
MaxCaseMask == 7

\* Days on either side of 2025-01-15 among the timestamp inputs.
DaySpan == 1

\* Seconds the clock may advance past its start.
MaxTicks == 2

-----------------------------------------------------------------------------
(* Inputs: body names *)

RECURSIVE Pow2(_)
Pow2(n) == IF n = 0 THEN 1 ELSE 2 * Pow2(n - 1)

\* name with the letters picked by mask in upper case
CaseMask(name, mask) ==
    [i \in 1..Len(name) |->
        IF (mask \div Pow2(i - 1)) % 2 = 1 THEN UpperChar(name[i]) ELSE name[i]]

\* Names that are not registered: the test's invalid_planet, the empty name, a
\* registered name with a letter or a blank added, an ephemeris identifier.
UnregisteredNames == {
    <<"i","n","v","a","l","i","d","_","p","l","a","n","e","t">>,
    <<>>,
    <<"m","a","r","s","x">>,
    <<" ","m","a","r","s">>,
    <<"j","u","p","i","t","e","r"," ","b","a","r","y","c","e","n","t","e","r">> }

RegisteredSpellings ==
    { CaseMask(BODY_MAP_LITERAL[i].key, m) : i \in 1..Len(BODY_MAP_LITERAL),
                                               m \in 0..MaxCaseMask }

NameInputs == RegisteredSpellings \cup UnregisteredNames

-----------------------------------------------------------------------------
(* Inputs: timestamp texts, written out from their parts *)

DateInputs ==
    { <<2025, 1, d>> : d \in (15 - DaySpan)..(15 + DaySpan) }
        \cup { <<2024, 12, 31>>, <<2025, 1, 1>>, <<2024, 2, 29>>, <<2024, 3, 1>>,
               <<2025, 2, 29>>, <<2025, 13, 45>> }

TimeInputs ==
    { <<0, 0, 0>>, <<7, 0, 0>>, <<12, 0, 0>>, <<15, 0, 0>>, <<17, 30, 0>>,
      <<21, 0, 0>>, <<23, 59, 59>>, <<25, 0, 0>> }

\* The offset suffixes: none, 'Z', and +HH:MM / -HH:MM as <<sign, hours, minutes>>.
SuffixInputs ==
    { <<"naive">>, <<"Z">>, <<1, 0, 0>>, <<1, 3, 0>>, <<-1, 5, 0>>, <<1, 5, 30>> }

RenderSuffix(x) ==
    IF x = <<"naive">> THEN <<>>
    ELSE IF x = <<"Z">> THEN <<"Z">>
    ELSE << IF x[1] < 0 THEN "-" ELSE "+" >> \o Format2(x[2]) \o <<":">> \o Format2(x[3])

\* The text of a date, a time of day and a suffix.
Render(d, hms, x) ==
    Format4(d[1]) \o <<"-">> \o Format2(d[2]) \o <<"-">> \o Format2(d[3])
        \o <<"T">> \o Format2(hms[1]) \o <<":">> \o Format2(hms[2])
        \o <<":">> \o Format2(hms[3]) \o RenderSuffix(x)

\* Texts that are no timestamp at all.
MalformedTexts == {
    <<>>,
    <<"Z">>,
    <<"g","a","r","b","a","g","e">>,
    <<"n","o","t","-","a","-","d","a","t","e","Z">>,
    <<"2","0","2","5","-","0","1","-","1","5","T","1","2",":","0","0","+","3">>,
    <<"2","0","2","5","/","0","1","/","1","5","T","1","2",":","0","0","Z">> }

TimestampParts == DateInputs \X TimeInputs \X SuffixInputs

TimestampTexts ==
    { Render(c[1], c[2], c[3]) : c \in TimestampParts } \cup MalformedTexts

\* The clock when the process starts: 2025-01-15T12:00:00 UTC.
StartClock == ts_utc(2025, 1, 15, 12, 0, 0)

-----------------------------------------------------------------------------
(* get_body and parse_timestamp applied to every input *)

InitBody ==
    /\ InitGlobals
    /\ req \in { [fn |-> "get_body", name |-> n] : n \in NameInputs }
    /\ resp = NoResp
    /\ ephQueries = 0
    /\ coreCalls = 0
    /\ providerRaised = "none"
    /\ now = StartClock

ApplyGetBody ==
    /\ req.fn = "get_body"
    /\ resp = NoResp
    /\ resp' = get_body(req.name)
    /\ coreCalls' = coreCalls + 1
    /\ UNCHANGED <<req, ephQueries, providerRaised, now, globals>>

NextBody == ApplyGetBody

SpecBody == InitBody /\ [][NextBody]_vars

InitTime ==
    /\ InitGlobals
    /\ req \in { [fn |-> "parse_timestamp", at |-> a] : a \in TimestampTexts }
    /\ resp = NoResp
    /\ ephQueries = 0
    /\ coreCalls = 0
    /\ providerRaised = "none"
    /\ now = StartClock

\* parse_timestamp(at), and the timestamp string the calculators report for
\* its result (t.utc_iso(), lines 135 and 186).
ApplyParseTimestamp ==
    /\ req.fn = "parse_timestamp"
    /\ resp = NoResp
    /\ LET r == parse_timestamp(req.at, now) IN
       resp' = IF r.ok THEN [ok |-> TRUE, t |-> r.t, timestamp |-> utc_iso(r.t)]
               ELSE r
    /\ coreCalls' = coreCalls + 1
    /\ UNCHANGED <<req, ephQueries, providerRaised, now, globals>>

NextTime == ApplyParseTimestamp

SpecTime == InitTime /\ [][NextTime]_vars

-----------------------------------------------------------------------------
(* calculate_distance applied to every pair of names and every time *)

\* Times of day tried by calculate_distance: 12:00:00 plus 17 s, this often.
MaxCalcTimes == 6

CalcNames ==
    { BODY_MAP_LITERAL[i].key : i \in 1..Len(BODY_MAP_LITERAL) }
        \cup { CaseMask(<<"m","a","r","s">>, MaxCaseMask),
               <<"i","n","v","a","l","i","d","_","p","l","a","n","e","t">> }

CalcTimestamps ==
    { Render(<<2025, 1, 15>>, <<12, (17 * k) \div 60, (17 * k) % 60>>, <<"Z">>) :
          k \in 0..MaxCalcTimes }
        \cup { Render(<<2025, 1, 15>>, <<15, 0, 40>>, <<1, 3, 0>>), NoneText }

InitCalc ==
    /\ InitGlobals
    /\ req \in { [fn |-> "calculate_distance", body1_name |-> a, body2_name |-> b,
                  at |-> x] : a \in CalcNames, b \in CalcNames, x \in CalcTimestamps }
    /\ resp = NoResp
    /\ ephQueries = 0
    /\ coreCalls = 0
    /\ providerRaised = "none"
    /\ now = StartClock

ApplyCalculateDistance ==
    /\ req.fn = "calculate_distance"
    /\ resp = NoResp
    /\ LET r == calculate_distance(req.body1_name, req.body2_name, req.at, now, Healthy)
       IN  /\ resp' = r
           /\ ephQueries' = r.queries
           /\ providerRaised' = r.raised
    /\ coreCalls' = coreCalls + 1
    /\ UNCHANGED <<req, now, globals>>

NextCalc == ApplyCalculateDistance

SpecCalc == InitCalc /\ [][NextCalc]_vars

-----------------------------------------------------------------------------
(* The two calculators called directly, with inputs valid and invalid *)

CoreNames ==
    { <<"e","a","r","t","h">>, <<"m","a","r","s">>,
      <<"i","n","v","a","l","i","d","_","p","l","a","n","e","t">>,
      <<"m","a","r","s","x">>, <<>> }

CoreTimestamps ==
    { NoneText,
      Render(<<2025, 1, 15>>, <<12, 0, 0>>, <<"Z">>),
      Render(<<2025, 2, 29>>, <<12, 0, 0>>, <<"Z">>),
      <<"g","a","r","b","a","g","e">> }

\* Latitudes and longitudes in ten-thousandths of a degree, in and out of range.
CoreLatitudes  == { -900001, 0, 900000, 1000000 }
CoreLongitudes == { -1800001, 0, 1800000, 2000000 }

CoreCalls ==
    { [fn |-> "calculate_distance", body1_name |-> a, body2_name |-> b, at |-> x] :
          a \in CoreNames, b \in CoreNames, x \in CoreTimestamps }
    \cup
    { [fn |-> "calculate_position_from_earth", planet_name |-> a, lat |-> la,
       lon |-> lo, at |-> x] :
          a \in CoreNames, la \in CoreLatitudes, lo \in CoreLongitudes,
          x \in CoreTimestamps }

InitCore ==
    /\ InitGlobals
    /\ req \in CoreCalls
    /\ resp = NoResp
    /\ ephQueries = 0
    /\ coreCalls = 0
    /\ providerRaised = "none"
    /\ now = StartClock

\* What a call of a calculator leaves behind: its result, the state vectors
\* it asked for, the exception of the provider if it raised one.
Return(r) ==
    /\ resp' = r
    /\ ephQueries' = r.queries
    /\ providerRaised' = r.raised
    /\ coreCalls' = coreCalls + 1
    /\ UNCHANGED <<req, now, globals>>

CallCalculateDistance ==
    /\ req.fn = "calculate_distance"
    /\ resp = NoResp
    /\ \E provider \in ProviderBehaviours :
          Return(calculate_distance(req.body1_name, req.body2_name, req.at, now,
                                    provider))

CallCalculatePosition ==
    /\ req.fn = "calculate_position_from_earth"
    /\ resp = NoResp
    /\ \E provider \in ProviderBehaviours :
          Return(calculate_position_from_earth(req.planet_name, req.lat, req.lon,
                                               req.at, now, provider))

NextCore ==
    \/ CallCalculateDistance
    \/ CallCalculatePosition

SpecCore == InitCore /\ [][NextCore]_vars

-----------------------------------------------------------------------------
(* The HTTP routes: src/main.py *)

\* JSONResponse(status_code=..., content={"detail": ...}) of the exception
\* handler for HTTPException (lines 66-72).
http_exception_handler(status_code, detail) ==
    [status |-> status_code, detail |-> detail]

\* FastAPI's answer when a declared Query parameter is missing or fails its
\* ge / le constraint: the route function is not called.
RequestValidationError ==
    [response |-> [status |-> 422, detail |-> << Lit("validation error") >>],
     queries |-> 0, calls |-> 0, raised |-> "none"]

\* The try / except of a route around the result of its core function (lines
\* 157-164 and 223-230).
RouteOutcome(result) ==
    Let(result, LAMBDA r :
        [response |->
            IF r.ok THEN [status |-> 200, body |-> r.value]
            ELSE IF r.exc.type = "ValueError"
            THEN http_exception_handler(400, r.exc.msg)
            ELSE http_exception_handler(500, << Lit("Calculation failed") >>),
         queries |-> r.queries, calls |-> 1, raised |-> r.raised])

\* get_distance with obj1 and obj2 declared optional, an absent one taken as
\* the empty name (a mutant of get_distance).
get_distance_optional(obj1, obj2, at, clock, provider) ==
    RouteOutcome(calculate_distance(
        IF obj1 = Missing THEN <<>> ELSE lower(obj1),
        IF obj2 = Missing THEN <<>> ELSE lower(obj2), at, clock, provider))

\* GET /distance (lines 115-164)
get_distance(obj1, obj2, at, clock, provider) ==
    IF obj1 = Missing \/ obj2 = Missing THEN RequestValidationError
    ELSE RouteOutcome(calculate_distance(lower(obj1), lower(obj2), at, clock, provider))

\* GET /position (lines 166-230); lat and lon in ten-thousandths of a degree.
get_position(planet, lat, lon, at, clock, provider) ==
    IF planet = Missing \/ lat = MissingNum \/ lon = MissingNum
    THEN RequestValidationError
    ELSE IF ~(lat >= -900000 /\ lat <= 900000) \/ ~(lon >= -1800000 /\ lon <= 1800000)
    THEN RequestValidationError
    ELSE RouteOutcome(calculate_position_from_earth(lower(planet), lat, lon, at,
                                                    clock, provider))

\* GET /bodies (lines 100-113)
list_bodies == [status |-> 200, body |-> [available_bodies |-> AVAILABLE_BODIES]]

\* GET /health (lines 234-246)
health_check ==
    [status |-> 200,
     body |-> [status |-> "healthy", service |-> "CosmosAPI", version |-> "1.0.0",
               ephemeris_loaded |-> TRUE]]

\* GET / (lines 84-98)
home ==
    [status |-> 200,
     body |-> [message |-> "Welcome to CosmosAPI!", version |-> "1.0.0",
               endpoints |-> << "/bodies", "/distance", "/position" >>,
               documentation |-> "/docs"]]

-----------------------------------------------------------------------------
(* Inputs: requests *)

HttpNames ==
    { <<"s","u","n">>, <<"e","a","r","t","h">>, <<"m","o","o","n">>,
      <<"m","a","r","s">>, CaseMask(<<"m","a","r","s">>, MaxCaseMask),
      <<"j","u","p","i","t","e","r">>,
      <<"i","n","v","a","l","i","d","_","p","l","a","n","e","t">>, <<>>, Missing }

HttpTimestamps ==
    { NoneText,
      Render(<<2025, 1, 15>>, <<12, 0, 0>>, <<"Z">>),
      Render(<<2025, 1, 15>>, <<15, 0, 40>>, <<1, 3, 0>>),
      Render(<<2025, 2, 29>>, <<12, 0, 0>>, <<"Z">>),
      <<"g","a","r","b","a","g","e">> }

\* Latitudes and longitudes, in ten-thousandths of a degree: the bounds, the
\* values just past them (90.0001, 180.0001), the tests' values.
HttpLatitudes  == { -900001, -900000, 0, 410082, 900000, 900001, 1000000, MissingNum }
HttpLongitudes == { -1800001, -1800000, 0, 289784, 1800000, 1800001, 2000000, MissingNum }

Requests ==
    { [fn |-> "GET /distance", obj1 |-> a, obj2 |-> b, at |-> x] :
          a \in HttpNames, b \in HttpNames, x \in HttpTimestamps }
    \cup
    { [fn |-> "GET /position", planet |-> a, lat |-> la, lon |-> lo, at |-> x] :
          a \in HttpNames, la \in HttpLatitudes, lo \in HttpLongitudes,
          x \in HttpTimestamps }
    \cup
    { [fn |-> "GET /bodies"], [fn |-> "GET /health"], [fn |-> "GET /"] }

\* No request is being handled.
NoReq == [fn |-> "none"]

-----------------------------------------------------------------------------
(* The server: a request arrives, its route answers it *)

Init ==
    /\ InitGlobals
    /\ req = NoReq
    /\ resp = NoResp
    /\ ephQueries = 0
    /\ coreCalls = 0
    /\ providerRaised = "none"
    /\ now = StartClock

\* A request arrives when none is being handled.
Receive ==
    /\ req = NoReq
    /\ req' \in Requests
    /\ UNCHANGED <<resp, ephQueries, coreCalls, providerRaised, now, globals>>

Answer(outcome) ==
    /\ resp' = outcome.response
    /\ ephQueries' = outcome.queries
    /\ coreCalls' = outcome.calls
    /\ providerRaised' = outcome.raised
    /\ UNCHANGED <<req, now, globals>>

ServeDistance ==
    /\ req.fn = "GET /distance"
    /\ resp = NoResp
    /\ \E provider \in ProviderBehaviours :
          Answer(get_distance(req.obj1, req.obj2, req.at, now, provider))

ServePosition ==
    /\ req.fn = "GET /position"
    /\ resp = NoResp
    /\ \E provider \in ProviderBehaviours :
          Answer(get_position(req.planet, req.lat, req.lon, req.at, now, provider))

ServeBodies ==
    /\ req.fn = "GET /bodies"
    /\ resp = NoResp
    /\ resp' = list_bodies
    /\ UNCHANGED <<req, ephQueries, coreCalls, providerRaised, now, globals>>

ServeHealth ==
    /\ req.fn = "GET /health"
    /\ resp = NoResp
    /\ resp' = health_check
    /\ UNCHANGED <<req, ephQueries, coreCalls, providerRaised, now, globals>>

ServeHome ==
    /\ req.fn = "GET /"
    /\ resp = NoResp
    /\ resp' = home
    /\ UNCHANGED <<req, ephQueries, coreCalls, providerRaised, now, globals>>

\* The response goes out to the client, and with it everything the request
\* held: nothing of a request outlives it.
SendResponse ==
    /\ resp # NoResp
    /\ req' = NoReq
    /\ resp' = NoResp
    /\ ephQueries' = 0
    /\ coreCalls' = 0
    /\ providerRaised' = "none"
    /\ UNCHANGED <<now, globals>>

\* A second passes on the clock ts.now() reads.
Tick ==
    /\ now < StartClock + MaxTicks
    /\ now' = now + 1
    /\ UNCHANGED <<req, resp, ephQueries, coreCalls, providerRaised, globals>>

Next ==
    \/ Receive
    \/ ServeDistance
    \/ ServePosition
    \/ ServeBodies
    \/ ServeHealth
    \/ ServeHome
    \/ SendResponse
    \/ Tick

Spec == Init /\ [][Next]_vars

-----------------------------------------------------------------------------
(* The server handling several requests at once: the routes are plain def   *)
(* functions, which FastAPI runs on the threads of a pool. Each worker      *)
(* holds one request; req, resp, ephQueries, coreCalls and providerRaised   *)
(* are kept per worker.                                                      *)

\* Threads of the pool.
MaxWorkers == 2

Workers == 1..MaxWorkers

ConcRequests ==
    { [fn |-> "GET /bodies"], [fn |-> "GET /health"],
      [fn |-> "GET /distance", obj1 |-> <<"e","a","r","t","h">>,
       obj2 |-> <<"m","a","r","s">>,
       at |-> Render(<<2025, 1, 15>>, <<12, 0, 0>>, <<"Z">>)],
      [fn |-> "GET /distance", obj1 |-> <<"m","a","r","s">>,
       obj2 |-> <<"e","a","r","t","h">>, at |-> NoneText],
      [fn |-> "GET /distance", obj1 |-> <<"e","a","r","t","h">>,
       obj2 |-> <<"i","n","v","a","l","i","d","_","p","l","a","n","e","t">>,
       at |-> Render(<<2025, 1, 15>>, <<12, 0, 0>>, <<"Z">>)],
      [fn |-> "GET /position", planet |-> <<"m","a","r","s">>, lat |-> 410082,
       lon |-> 289784, at |-> Render(<<2025, 1, 15>>, <<15, 0, 40>>, <<1, 3, 0>>)],
      [fn |-> "GET /position", planet |-> <<"m","o","o","n">>, lat |-> 0,
       lon |-> 0, at |-> <<"g","a","r","b","a","g","e">>] }

InitConc ==
    /\ InitGlobals
    /\ req = [w \in Workers |-> NoReq]
    /\ resp = [w \in Workers |-> NoResp]
    /\ ephQueries = [w \in Workers |-> 0]
    /\ coreCalls = [w \in Workers |-> 0]
    /\ providerRaised = [w \in Workers |-> "none"]
    /\ now = StartClock

\* A request reaches a free worker.
Accept(w) ==
    /\ req[w] = NoReq
    /\ \E r \in ConcRequests : req' = [req EXCEPT ![w] = r]
    /\ UNCHANGED <<resp, ephQueries, coreCalls, providerRaised, now, globals>>

\* The thread of worker w has run its route: nothing but what the worker
\* holds is written.
Finish(w, outcome) ==
    /\ resp' = [resp EXCEPT ![w] = outcome.response]
    /\ ephQueries' = [ephQueries EXCEPT ![w] = outcome.queries]
    /\ coreCalls' = [coreCalls EXCEPT ![w] = outcome.calls]
    /\ providerRaised' = [providerRaised EXCEPT ![w] = outcome.raised]
    /\ UNCHANGED <<req, now, globals>>

RunDistance(w) ==
    /\ req[w].fn = "GET /distance"
    /\ resp[w] = NoResp
    /\ \E provider \in ProviderBehaviours :
          Finish(w, get_distance(req[w].obj1, req[w].obj2, req[w].at, now, provider))

RunPosition(w) ==
    /\ req[w].fn = "GET /position"
    /\ resp[w] = NoResp
    /\ \E provider \in ProviderBehaviours :
          Finish(w, get_position(req[w].planet, req[w].lat, req[w].lon, req[w].at,
                                 now, provider))

\* list_bodies handing out AVAILABLE_BODIES and taking its first name off the
\* shared list (a mutant of RunBodies).
RunBodiesPopping(w) ==
    /\ req[w].fn = "GET /bodies"
    /\ resp[w] = NoResp
    /\ resp' = [resp EXCEPT ![w] = list_bodies]
    /\ AVAILABLE_BODIES' = Tail(AVAILABLE_BODIES)
    /\ UNCHANGED <<req, ephQueries, coreCalls, providerRaised, now, planets, BODY_MAP>>

RunBodies(w) ==
    /\ req[w].fn = "GET /bodies"
    /\ resp[w] = NoResp
    /\ resp' = [resp EXCEPT ![w] = list_bodies]
    /\ UNCHANGED <<req, ephQueries, coreCalls, providerRaised, now, globals>>

RunHealth(w) ==
    /\ req[w].fn = "GET /health"
    /\ resp[w] = NoResp
    /\ resp' = [resp EXCEPT ![w] = health_check]
    /\ UNCHANGED <<req, ephQueries, coreCalls, providerRaised, now, globals>>

\* The response of worker w goes out and the worker is free again.
Respond(w) ==
    /\ resp[w] # NoResp
    /\ req' = [req EXCEPT ![w] = NoReq]
    /\ resp' = [resp EXCEPT ![w] = NoResp]
    /\ ephQueries' = [ephQueries EXCEPT ![w] = 0]
    /\ coreCalls' = [coreCalls EXCEPT ![w] = 0]
    /\ providerRaised' = [providerRaised EXCEPT ![w] = "none"]
    /\ UNCHANGED <<now, globals>>

NextConc ==
    \/ \E w \in Workers : Accept(w)
    \/ \E w \in Workers : RunDistance(w)
    \/ \E w \in Workers : RunPosition(w)
    \/ \E w \in Workers : RunBodies(w)
    \/ \E w \in Workers : RunHealth(w)
    \/ \E w \in Workers : Respond(w)
    \/ Tick

SpecConc == InitConc /\ [][NextConc]_vars

-----------------------------------------------------------------------------
(* Claims about get_body and parse_timestamp *)

\* The eleven names of the claim, in its order, and the identifier of each.
ClaimedNames == <<
    <<"s","u","n">>, <<"e","a","r","t","h">>, <<"m","o","o","n">>,
    <<"m","e","r","c","u","r","y">>, <<"v","e","n","u","s">>, <<"m","a","r","s">>,
    <<"j","u","p","i","t","e","r">>, <<"s","a","t","u","r","n">>,
    <<"u","r","a","n","u","s">>, <<"n","e","p","t","u","n","e">>,
    <<"p","l","u","t","o">> >>

ClaimedIdentifiers == <<
    "sun", "earth", "moon", "mercury", "venus", "mars",
    "jupiter barycenter", "saturn barycenter", "uranus barycenter",
    "neptune barycenter", "pluto barycenter" >>

\* The indexes of the claimed names that name spells, in some mix of cases.
SpelledNames(name) ==
    { i \in 1..11 : \E m \in 0..MaxCaseMask : CaseMask(ClaimedNames[i], m) = name }

\* C9: get_body maps every spelling of one of the eleven names, whatever its
\* case, to the one identifier of that name (the barycenter for jupiter,
\* saturn, uranus, neptune and pluto, the body itself for the other six), it
\* rejects every other name with a ValueError, and the list of available
\* bodies is the eleven names in their fixed order.
ThmC9 ==
    /\ AVAILABLE_BODIES = ClaimedNames
    /\ (req.fn = "get_body" /\ resp # NoResp) =>
          IF SpelledNames(req.name) # {}
          THEN /\ resp.ok
               /\ \A i \in SpelledNames(req.name) : resp.body = ClaimedIdentifiers[i]
          ELSE /\ ~resp.ok
               /\ resp.exc.type = "ValueError"

\* get_body has resolved JUPiter, a mixed-case spelling, to the barycenter.
WitC9 ==
    /\ req.fn = "get_body"
    /\ req.name = <<"J","U","P","i","t","e","r">>
    /\ resp # NoResp
    /\ resp.ok
    /\ resp.body = "jupiter barycenter"

\* The message holds text: some interpolated piece of it contains text.
MessageContains(msg, text) ==
    \E i \in 1..Len(msg) : Contains(msg[i].chars, text)

\* C4: every text parse_timestamp fails to parse, the texts ending in 'Z'
\* included, gives a ValueError for an invalid timestamp whose message
\* contains the text exactly as the caller supplied it and an example of the
\* expected format.
ClaimC4 ==
    (req.fn = "parse_timestamp" /\ resp # NoResp /\ ~resp.ok) =>
        /\ resp.exc.type = "ValueError"
        /\ resp.exc.msg[1] = Lit("Invalid timestamp format: '")
        /\ MessageContains(resp.exc.msg, req.at)
        /\ MessageContains(resp.exc.msg, ExampleZ)

\* What a text written from the parts c denotes: whether it is a date and time
\* of the calendar, and the instant, in seconds since the epoch day.
PartsValid(c) ==
    /\ c[1][2] \in 1..12
    /\ c[1][3] \in 1..DaysInMonth(c[1][1], c[1][2])
    /\ c[2][1] \in 0..23 /\ c[2][2] \in 0..59 /\ c[2][3] \in 0..59

PartsOffset(c) ==
    IF c[3] \in { <<"naive">>, <<"Z">> } THEN 0
    ELSE c[3][1] * (c[3][2] * 3600 + c[3][3] * 60)

PartsInstant(c) ==
    (ymd2ord(c[1][1], c[1][2], c[1][3]) - EpochOrdinal) * 86400
        + c[2][1] * 3600 + c[2][2] * 60 + c[2][3] - PartsOffset(c)

\* C5: parse_timestamp gives the TimePoint of the instant a text denotes (an
\* offset taken off, 'Z' as +00:00, no offset as UTC), and every other text
\* that denotes the same instant gives the identical TimePoint and the
\* identical output timestamp string.
ThmC5 ==
    (req.fn = "parse_timestamp" /\ resp # NoResp) =>
        \A c1 \in TimestampParts :
            (Render(c1[1], c1[2], c1[3]) = req.at /\ PartsValid(c1)) =>
                /\ resp.ok
                /\ resp.t = PartsInstant(c1)
                /\ \A c2 \in TimestampParts :
                      (PartsValid(c2) /\ PartsInstant(c2) = PartsInstant(c1)) =>
                          LET r2 == parse_timestamp(Render(c2[1], c2[2], c2[3]), now)
                          IN  /\ r2.ok
                              /\ r2.t = resp.t
                              /\ utc_iso(r2.t) = resp.timestamp

\* 2025-01-15T15:00:00+03:00 has been parsed and is reported as
\* 2025-01-15T12:00:00Z.
WitC5 ==
    /\ req.fn = "parse_timestamp"
    /\ req.at = Render(<<2025, 1, 15>>, <<15, 0, 0>>, <<1, 3, 0>>)
    /\ resp # NoResp
    /\ resp.ok
    /\ resp.timestamp = ExampleZ

-----------------------------------------------------------------------------
(* Claims about calculate_distance *)

\* The result of the same call with the two bodies exchanged.
Reversed == calculate_distance(req.body2_name, req.body1_name, req.at, now, Healthy)

\* How far body moves between t - tau and t.
Motion(body, t, tau) == Abs(position_of(body, t) - position_of(body, t - tau))

\* C7 as claimed: the km of (A, B, t) and of (B, A, t) are equal within the
\* rounding of the reported value (one hundredth of a km).
ClaimC7 ==
    (req.fn = "calculate_distance" /\ resp # NoResp /\ resp.ok /\ Reversed.ok) =>
        Abs(resp.value.km - Reversed.value.km) <= 1

\* C7 as amended: the km of (A, B, t) and of (B, A, t) differ by no more than
\* the distance the two targets move during their light times (B during the
\* light time of the call, A during the light time of the reversed call),
\* plus the rounding; both calls succeed or fail together.
ThmC7 ==
    (req.fn = "calculate_distance" /\ resp # NoResp) =>
        /\ resp.ok = Reversed.ok
        /\ resp.ok =>
              LET t == parse_timestamp(req.at, now).t
                  A == get_body(req.body1_name).body
                  B == get_body(req.body2_name).body
              IN  10 * Abs(resp.value.km - Reversed.value.km)
                      <= Motion(B, t, resp.tau) + Motion(A, t, Reversed.tau) + 10

\* The distance from the earth to jupiter has been computed and differs from
\* the distance from jupiter to the earth by more than the rounding.
WitC7 ==
    /\ req.fn = "calculate_distance"
    /\ req.body1_name = <<"e","a","r","t","h">>
    /\ req.body2_name = <<"j","u","p","i","t","e","r">>
    /\ resp # NoResp
    /\ resp.ok
    /\ Reversed.ok
    /\ Abs(resp.value.km - Reversed.value.km) > 1

\* C8: when the two names are spellings of the same registered body,
\* calculate_distance succeeds with km, au and light_time_seconds all 0, and
\* the light-time iteration stops at its first convergence test.
ThmC8 ==
    (/\ req.fn = "calculate_distance"
     /\ resp # NoResp
     /\ SpelledNames(req.body1_name) # {}
     /\ SpelledNames(req.body1_name) = SpelledNames(req.body2_name)) =>
        /\ resp.ok
        /\ resp.value.km = 0
        /\ resp.value.au = 0
        /\ resp.value.light_time_seconds = 0
        /\ resp.iters = 1

\* The distance from mars to MARs has been computed, and is 0.
WitC8 ==
    /\ req.fn = "calculate_distance"
    /\ req.body1_name = <<"m","a","r","s">>
    /\ req.body2_name = CaseMask(<<"m","a","r","s">>, MaxCaseMask)
    /\ resp # NoResp
    /\ resp.ok
    /\ resp.value.km = 0


-----------------------------------------------------------------------------
(* Claims about the HTTP routes *)

\* The request being handled is a /position request that carries planet, lat
\* and lon, and it has been answered.
PositionAnswered ==
    /\ req.fn = "GET /position"
    /\ resp # NoResp
    /\ req.planet # Missing /\ req.lat # MissingNum /\ req.lon # MissingNum

\* The request being handled is a /distance request that carries obj1 and
\* obj2, and it has been answered.
DistanceAnswered ==
    /\ req.fn = "GET /distance"
    /\ resp # NoResp
    /\ req.obj1 # Missing /\ req.obj2 # Missing

InRange(lat, lon) ==
    /\ -900000 <= lat /\ lat <= 900000
    /\ -1800000 <= lon /\ lon <= 1800000

\* The response is the 400 of an invalid coordinate.
InvalidCoordinate(r) ==
    /\ r.status = 400
    /\ r.detail[1] \in { Lit("Latitude must be between -90 and 90 degrees, got "),
                         Lit("Longitude must be between -180 and 180 degrees, got ") }

\* C1: a /position request for a valid planet is accepted when lat is in
\* [-90, 90] and lon in [-180, 180], the bounds included, and is rejected as
\* an invalid coordinate with status 400 when lat or lon is out of range.
ClaimC1 ==
    (PositionAnswered /\ SpelledNames(req.planet) # {}) =>
        IF InRange(req.lat, req.lon)
        THEN resp.status # 422 /\ ~InvalidCoordinate(resp)
        ELSE InvalidCoordinate(resp)

\* The response is the 400 of an unknown body, its message listing every one
\* of the eleven names.
UnknownBody(r) ==
    /\ r.status = 400
    /\ r.detail[1] = Lit("Invalid celestial body: '")
    /\ \A i \in 1..11 : MessageContains(r.detail, ClaimedNames[i])

\* C2: a /distance request whose obj1 or obj2 is no registered name, and a
\* /position request with coordinates in range whose planet is no registered
\* name, is answered 400 with a message that lists all the valid names, and
\* no state vector is asked of the ephemeris while it is handled.
ThmC2 ==
    /\ (DistanceAnswered
          /\ (SpelledNames(req.obj1) = {} \/ SpelledNames(req.obj2) = {}))
          => (UnknownBody(resp) /\ ephQueries = 0)
    /\ (PositionAnswered /\ InRange(req.lat, req.lon)
          /\ SpelledNames(req.planet) = {})
          => (UnknownBody(resp) /\ ephQueries = 0)

\* /distance from earth to invalid_planet has been answered 400.
WitC2 ==
    /\ DistanceAnswered
    /\ req.obj1 = <<"e","a","r","t","h">>
    /\ req.obj2 = <<"i","n","v","a","l","i","d","_","p","l","a","n","e","t">>
    /\ UnknownBody(resp)
    /\ coreCalls = 1

\* C3: in every successful position result is_visible is exactly
\* (altitude_deg > 0), altitude_deg being the rounded value of the result; a
\* result whose altitude_deg is 0 has is_visible false.
ClaimC3 ==
    (PositionAnswered /\ resp.status = 200) =>
        (resp.body.is_visible <=> (resp.body.altitude_deg > 0))

\* C6: every failure that begins in the ephemeris provider, whatever the type
\* of its exception, is answered with a 5xx status and the generic message
\* alone; a 4xx with a describing message is the answer to input errors only.
ClaimC6 ==
    (req.fn \in {"GET /distance", "GET /position"} /\ resp # NoResp
        /\ providerRaised # "none") =>
        /\ resp.status >= 500
        /\ resp.detail = << Lit("Calculation failed") >>

\* The request being handled lacks one of its required parameters.
MissingRequired ==
    \/ req.fn = "GET /distance" /\ (req.obj1 = Missing \/ req.obj2 = Missing)
    \/ req.fn = "GET /position"
          /\ (req.planet = Missing \/ req.lat = MissingNum \/ req.lon = MissingNum)

\* C10: a /distance request without obj1 or obj2, and a /position request
\* without planet, lat or lon, is answered 422 before any core function runs;
\* a 400 is the answer of a core function, and is given only to a request
\* that carries all its required parameters.
ThmC10 ==
    (req.fn \in {"GET /distance", "GET /position"} /\ resp # NoResp) =>
        /\ MissingRequired =>
              (resp.status = 422 /\ coreCalls = 0 /\ ephQueries = 0)
        /\ resp.status = 400 => (~MissingRequired /\ coreCalls = 1)

\* /distance without obj1 has been answered 422, no core function called.
WitC10 ==
    /\ req.fn = "GET /distance"
    /\ req.obj1 = Missing
    /\ req.obj2 = <<"m","a","r","s">>
    /\ resp # NoResp
    /\ resp.status = 422
    /\ coreCalls = 0


-----------------------------------------------------------------------------
(* Claims about the order of validation *)

\* The ValueError of a latitude or a longitude out of range.
LatitudeError(lat) ==
    Raise("ValueError", << Lit("Latitude must be between -90 and 90 degrees, got "),
                           Interp(FormatCoordinate(lat)) >>)

LongitudeError(lon) ==
    Raise("ValueError", << Lit("Longitude must be between -180 and 180 degrees, got "),
                           Interp(FormatCoordinate(lon)) >>)

\* The checks of the call in hand that fail, each taken alone, in the order
\* of the claim, with the error of each.
FailingChecks ==
    IF req.fn = "calculate_position_from_earth"
    THEN SelectSeq(<< [failed |-> ~(-900000 <= req.lat /\ req.lat <= 900000),
                       error |-> LatitudeError(req.lat)],
                      [failed |-> ~(-1800000 <= req.lon /\ req.lon <= 1800000),
                       error |-> LongitudeError(req.lon)],
                      [failed |-> ~get_body(req.planet_name).ok,
                       error |-> get_body(req.planet_name)],
                      [failed |-> ~parse_timestamp(req.at, now).ok,
                       error |-> parse_timestamp(req.at, now)] >>,
                   LAMBDA c : c.failed)
    ELSE SelectSeq(<< [failed |-> ~get_body(req.body1_name).ok,
                       error |-> get_body(req.body1_name)],
                      [failed |-> ~get_body(req.body2_name).ok,
                       error |-> get_body(req.body2_name)],
                      [failed |-> ~parse_timestamp(req.at, now).ok,
                       error |-> parse_timestamp(req.at, now)] >>,
                   LAMBDA c : c.failed)

\* C11: calculate_position_from_earth checks latitude, longitude, body name
\* and timestamp in that order, calculate_distance checks body 1, body 2 and
\* timestamp in that order; when some checks fail the call raises the error
\* of the first of them, and has asked the ephemeris for no position; when
\* none fails the call raises no validation error.
ThmC11 ==
    (req.fn \in {"calculate_distance", "calculate_position_from_earth"}
        /\ resp # NoResp) =>
        IF FailingChecks # <<>>
        THEN /\ ~resp.ok
             /\ resp.exc = FailingChecks[1].error.exc
             /\ ephQueries = 0
             /\ providerRaised = "none"
        ELSE resp.ok \/ providerRaised # "none"

\* calculate_position_from_earth was called with a latitude out of range, an
\* unregistered name and a text that is no timestamp, and raised the error of
\* the latitude.
WitC11 ==
    /\ req.fn = "calculate_position_from_earth"
    /\ req.lat = 1000000
    /\ req.planet_name = <<"i","n","v","a","l","i","d","_","p","l","a","n","e","t">>
    /\ req.at = <<"g","a","r","b","a","g","e">>
    /\ resp # NoResp
    /\ ~resp.ok
    /\ resp.exc = LatitudeError(1000000).exc
    /\ Len(FailingChecks) >= 3


-----------------------------------------------------------------------------
(* Claims about shared state *)

\* The provider as worker w met it.
ProviderMet(w) ==
    IF providerRaised[w] = "none" THEN Healthy
    ELSE [fails |-> TRUE, type |-> providerRaised[w]]

\* The response to request r handled alone, straight after start-up.
HandledAlone(r, provider) ==
    IF r.fn = "GET /distance"
    THEN get_distance(r.obj1, r.obj2, r.at, StartClock, provider).response
    ELSE get_position(r.planet, r.lat, r.lon, r.at, StartClock, provider).response

\* Worker w has answered a /distance or /position request that gives its
\* timestamp.
AnsweredExplicit(w) ==
    /\ req[w].fn \in {"GET /distance", "GET /position"}
    /\ req[w].at # NoneText
    /\ resp[w] # NoResp

\* C12: whatever requests have run and are running, the ephemeris dataset,
\* BODY_MAP and AVAILABLE_BODIES are as they were after start-up, and the
\* answer to a /distance or /position request that gives its timestamp is the
\* answer the same request gets when handled alone.
ThmC12 ==
    /\ planets = DE421
    /\ BODY_MAP = BODY_MAP_LITERAL
    /\ AVAILABLE_BODIES = keys(BODY_MAP_LITERAL)
    /\ \A w \in Workers :
          AnsweredExplicit(w) => resp[w] = HandledAlone(req[w], ProviderMet(w))

\* Two requests are in hand at once, the clock has moved since start-up:
\* worker 1 has answered /distance earth mars with 200 while worker 2 has
\* answered /distance earth invalid_planet with 400.
WitC12 ==
    /\ now > StartClock
    /\ AnsweredExplicit(1)
    /\ AnsweredExplicit(2)
    /\ req[1].obj2 = <<"m","a","r","s">>
    /\ resp[1].status = 200
    /\ resp[2].status = 400
    /\ resp[1] = HandledAlone(req[1], Healthy)

=============================================================================
